---- MODULE Spec2Model ----
(***************************************************************************)
(* DNS response cache of email-infra (dns/cache-manager.py, class          *)
(* DNSCacheManager) as a state machine.                                    *)
(*                                                                         *)
(* The engine runs on one asyncio event loop.  A coroutine runs without    *)
(* interruption until it awaits a Redis call (asyncio.to_thread); every    *)
(* action below is one such uninterrupted stretch.  A Redis call takes     *)
(* effect at the instant its result is delivered to the coroutine.         *)
(* Time is the value datetime.now() returns, in seconds; the clock moves   *)
(* in ticks of Step seconds and several operations can read the same value.*)
(***************************************************************************)
EXTENDS Integers, Sequences, FiniteSets, TLC

(* ---------------- configuration (_get_default_config) ------------------ *)
TtlDefault == 300
TtlMin == 60
TtlMax == 86400
PrefetchThreshold == 60

\* DNSManager._get_default_config: retry.max_attempts, retry.backoff_factor
MaxAttempts == 3
BackoffFactor == 2
\* the Retry-After a 429 response is given when it names none
RetryAfterDefault == 5

\* config['optimization']: min_access_for_adjustment, and
\* ttl_adjustment_factor 1.2 as the fraction AdjustNum / AdjustDen
MinAccessForAdjustment == 10
AdjustNum == 6
AdjustDen == 5
\* optimize_ttl: accesses per hour above which a record is in high demand and
\* below which it is in low demand, and the seconds of an hour
HighRate == 10
LowRate == 1
SecondsPerHour == 3600

(* ---------------- bounds of the exploration ---------------------------- *)
\* largest max_entries the configuration file is given
MaxCap == 2
\* seconds per clock tick, and the number of ticks in one run
Step == 40
MaxTicks == 2
\* number of cache operations callers start in one run
MaxOps == 3
\* 429 responses within one get_zones call, and get_zones calls in a run
MaxRateLimited == 1
MaxCalls == 3
\* calls made to the twin engines in a run
MaxTwinCalls == 4

(* ---------------- inputs ------------------------------------------------ *)
Procs == {"p1", "p2"}
DomainInputs == {"a.com", "A.COM", "b.com"}
\* nameserver=None, ttl=None
NoNs == "None"
NoTtl == -1
\* the records callers ask for: (domain, record_type, nameserver) as typed
Requests == {<<"a.com", "A", NoNs>>, <<"A.COM", "a", NoNs>>,
             <<"a.com", "mx", NoNs>>, <<"b.com", "A", NoNs>>}
\* the answers callers store: (value, ttl)
Answers == {<<"1.2.3.4", NoTtl>>, <<"1.2.3.4", 90000>>,
            <<"mail.a.com", 30>>, <<"mail.a.com", 60>>}
Backends == {"memory", "redis", "hybrid"}
None == "None"

\* str.lower() / str.upper() on the inputs above
Lower(s) == CASE s = "A.COM" -> "a.com" [] OTHER -> s
Upper(s) == CASE s = "mx" -> "MX" [] s = "a" -> "A" [] OTHER -> s

\* _generate_cache_key: md5 of "domain:TYPE[:nameserver]"; the digest is
\* taken to be injective, so the key is the joined parts themselves.
GenerateCacheKey(domain, record_type, nameserver) ==
    IF nameserver # NoNs /\ nameserver # ""
    THEN <<Lower(domain), Upper(record_type), nameserver>>
    ELSE <<Lower(domain), Upper(record_type)>>

Keys == {GenerateCacheKey(r[1], r[2], r[3]) : r \in Requests}
NoKey == <<>>

\* `domain_lower in cache_key`: the key is a hex digest, and a domain name
\* holds a "." (and letters beyond a-f), so it is never a substring of it.
DomainInDigest(domain_lower, cache_key) == FALSE

\* `domain_lower in str(value)` for the values above
DomainInValue(domain_lower, value) ==
    /\ domain_lower = "a.com"
    /\ value = "mail.a.com"

(* ---------------- timestamps and entries ------------------------------- *)
\* a datetime object, and the string isoformat() makes of it
Datetime(t) == <<"datetime", t>>
IsoFormat(dt) == <<"str", dt[2]>>
IsDatetime(x) == x[1] = "datetime"

\* CacheEntry(key, value, created_at, expires_at, ttl, last_accessed)
CacheEntry(key, value, t, ttl) ==
    [key |-> key, value |-> value, created_at |-> Datetime(t),
     expires_at |-> Datetime(t + ttl), access_count |-> 0,
     last_accessed |-> Datetime(t), ttl |-> ttl]

\* CacheEntry.to_dict: the three timestamps become isoformat strings
ToDict(entry) ==
    [entry EXCEPT !.created_at = IsoFormat(entry.created_at),
                  !.expires_at = IsoFormat(entry.expires_at),
                  !.last_accessed = IsoFormat(entry.last_accessed)]

\* a comparison that accepts the isoformat string as well
CompareNeverRaises(x) == FALSE

\* `datetime.now() > x` raises TypeError when x is not a datetime
CompareRaises(x) == ~IsDatetime(x)

\* an is_expired that confuses the expiry with the prefetch window
IsExpiredAfterGrace(entry, t) == t > entry.expires_at[2] + PrefetchThreshold

\* CacheEntry.is_expired, CacheEntry.is_stale (when they do not raise)
IsExpired(entry, t) == t > entry.expires_at[2]
\* an is_stale that takes every entry for stale
IsStaleAlways(entry, t, stale_threshold) == TRUE
IsStale(entry, t, stale_threshold) == t > entry.expires_at[2] - stale_threshold

(* ---------------- exceptions ------------------------------------------- *)
\* a handler written as `except redis.RedisError`
ExceptRedisError(exc) == exc = "RedisError"

\* a handler that catches nothing
ExceptNothing(exc) == FALSE

\* `except Exception` catches every exception the cache path can meet
ExceptException(exc) == exc \in {"RedisError", "TypeError"}

(* ---------------- state ------------------------------------------------ *)
VARIABLES
    now,             \* datetime.now(), seconds
    max_entries,     \* config['cache']['max_entries']
    cache_backend,   \* self.cache_backend
    redis_client,    \* self.redis_client is not None
    init_pc,         \* position of the _initialize_backend task
    memory_cache,    \* self.memory_cache, in dict (insertion) order
    redis,           \* the keys the Redis server holds
    cache_stats,     \* self.cache_stats
    prefetch_tasks,  \* _prefetch_record tasks created and not yet run, per key
    pc,              \* where each caller's coroutine is suspended
    frame,           \* the locals of each suspended coroutine
    ret,             \* what each caller's last finished operation returned
    quiet,           \* no other caller acted and no time passed since the
                     \* caller started its last set, delete or invalidate_domain
    redis_server,    \* whether the Redis server can be reached in this run
    callers,         \* the callers that use the engine in this run
    ops,             \* operations started so far
    zones_cache,     \* DNSManager.zones_cache
    call_stack,      \* the _make_request frames of the running get_zones call
    request_log,     \* what the session was asked in the running or last call
    zones_fetched,   \* a get_zones call has succeeded
    dns_ret,         \* what the last finished get_zones call returned
    dns_calls,       \* get_zones calls started so far
    history,         \* the sets that have completed, per key (kept when history.on)
    twin             \* two engines on the memory backend given the same calls,
                     \* one with cleanup runs and one without

cache_vars == <<now, max_entries, cache_backend, redis_client, init_pc, memory_cache,
                redis, cache_stats, prefetch_tasks, pc, frame, ret, quiet, redis_server,
                callers, ops, history, twin>>
dns_vars == <<zones_cache, call_stack, request_log, zones_fetched, dns_ret, dns_calls>>
vars == <<cache_vars, dns_vars>>

(* ---------------- the memory cache (a dict) ---------------------------- *)
Has(cache, k) == \E i \in 1..Len(cache) : cache[i].key = k
IndexOf(cache, k) == CHOOSE i \in 1..Len(cache) : cache[i].key = k
Lookup(cache, k) == cache[IndexOf(cache, k)]
\* cache[k] = entry: a key already there keeps its place in the dict
Store(cache, entry) ==
    IF Has(cache, entry.key)
    THEN [cache EXCEPT ![IndexOf(cache, entry.key)] = entry]
    ELSE Append(cache, entry)
\* del cache[k] for every k in ks
Remove(cache, ks) == SelectSeq(cache, LAMBDA e : e.key \notin ks)
CacheKeys(cache) == {cache[i].key : i \in 1..Len(cache)}

\* int(max_entries * 0.9)
TargetSize(m) == (m * 9) \div 10

\* a sort key that orders the entries by their creation alone
SortKeyCreatedAt(e) == e.created_at[2]

\* sort key of _evict_lru_entries: last_accessed or created_at
SortKey(e) == IF e.last_accessed[1] # "none" THEN e.last_accessed[2] ELSE e.created_at[2]

\* position (from 0) of entry i in sorted(): ascending, stable
SortedPos(cache, i) ==
    Cardinality({j \in 1..Len(cache) :
        \/ SortKey(cache[j]) < SortKey(cache[i])
        \/ SortKey(cache[j]) = SortKey(cache[i]) /\ j < i})

\* _evict_lru_entries: the keys removed
EvictedKeys(cache, m) ==
    {cache[i].key : i \in {j \in 1..Len(cache) : SortedPos(cache, j) < Len(cache) - TargetSize(m)}}

\* an eviction that counts one per run instead of one per entry removed
EvictIfFullCountingRuns(cache, m) ==
    IF Len(cache) > m
    THEN [cache |-> Remove(cache, EvictedKeys(cache, m)), evicted |-> 1]
    ELSE [cache |-> cache, evicted |-> 0]

\* an eviction check that lets the cache grow one entry above max_entries
EvictIfOverfull(cache, m) ==
    IF Len(cache) > m + 1
    THEN [cache |-> Remove(cache, EvictedKeys(cache, m)),
          evicted |-> Cardinality(EvictedKeys(cache, m))]
    ELSE [cache |-> cache, evicted |-> 0]

\* the eviction check of set(): [cache, evicted]
EvictIfFull(cache, m) ==
    IF Len(cache) > m
    THEN [cache |-> Remove(cache, EvictedKeys(cache, m)),
          evicted |-> Cardinality(EvictedKeys(cache, m))]
    ELSE [cache |-> cache, evicted |-> 0]

Min(a, b) == IF a < b THEN a ELSE b
Max(a, b) == IF a > b THEN a ELSE b
\* a clamp that forgets the lower bound: min(ttl, ttl_max)
ClampTtlNoFloor(ttl) ==
    LET given == IF ttl = NoTtl THEN TtlDefault ELSE ttl
    IN  Min(given, TtlMax)

\* ttl = max(ttl_min, min(ttl, ttl_max)), after the default for ttl=None
ClampTtl(ttl) ==
    LET given == IF ttl = NoTtl THEN TtlDefault ELSE ttl
    IN  Max(TtlMin, Min(given, TtlMax))

(* ---------------- Redis ------------------------------------------------- *)
\* `self.redis_client and self.cache_backend in ['redis', 'hybrid']`
RedisEnabled == redis_client /\ cache_backend \in {"redis", "hybrid"}
RedisHas(k) == \E r \in redis : r.key = k
RedisData(k) == (CHOOSE r \in redis : r.key = k).data
\* SETEX key ttl data
Setex(store, k, ttl, data, t) ==
    {r \in store : r.key # k} \cup {[key |-> k, data |-> data, expire_at |-> t + ttl]}
\* DEL keys
Del(store, ks) == {r \in store : r.key \notin ks}
\* the server drops a key when its time to live is over
Expire(store, t) == {r \in store : t < r.expire_at}
\* the outcome of one Redis call: it answers, or it raises (it always raises
\* when the server cannot be reached)
CallOutcomes == IF redis_server = "unreachable" THEN {"RedisError"} ELSE {"ok", "RedisError"}

(* ---------------- callers ---------------------------------------------- *)
NoFrame == [key |-> NoKey, value |-> None, ttl |-> 0, data |-> None,
            deleted |-> FALSE, count |-> 0, domain |-> None, keys |-> {}]
NoRet == [op |-> "none", key |-> NoKey, arg |-> None, val |-> None, n |-> 0,
          path |-> "none", raised |-> FALSE]

\* _initialize_backend has finished
Initialized == init_pc \in {"done", "ping_failed"}

\* a caller starts an operation: the engine is initialised, the caller is
\* idle, and the run has operations left.  Callers are interchangeable, so
\* the second one is only used while the first is suspended.
Idle(p) ==
    /\ Initialized
    /\ p \in callers
    /\ pc[p] = "idle"
    /\ ops < MaxOps
    /\ p = "p2" => pc["p1"] # "idle"

\* bookkeeping of `quiet` when caller p starts a writing operation / takes
\* any other step
QuietStart(p) == [q \in Procs |-> q = p]
QuietStep(p) == [q \in Procs |-> q = p /\ quiet[p]]

Bump(stats, field, n) == [stats EXCEPT ![field] = @ + n]

\* the values of the sets of each key that have started (started) and
\* completed (done), those of the sets that started before a later set of the
\* key that has completed (old), what started was when each caller's running
\* set started (pre), what old was when each caller's running get started
\* (snap), and the number of sets started (written)
History(on) ==
    [on |-> on, written |-> 0, started |-> [k \in Keys |-> {}],
     done |-> [k \in Keys |-> {}], old |-> [k \in Keys |-> {}],
     pre |-> [p \in Procs |-> {}], snap |-> [p \in Procs |-> {}]]

\* a set of key k with value v, started by p, returns
SetCompleted(h, p, k, v) ==
    IF ~h.on THEN h
    ELSE [h EXCEPT !.done[k] = @ \cup {v}, !.old[k] = @ \cup h.pre[p], !.pre[p] = {}]
\* p starts a set of key k with value v
SetStarted(h, p, k, v) ==
    IF ~h.on THEN h
    ELSE [h EXCEPT !.pre[p] = h.started[k], !.started[k] = @ \cup {v}, !.written = @ + 1]
\* p starts a get of key k
GetStarted(h, p, k) ==
    IF ~h.on THEN h ELSE [h EXCEPT !.snap[p] = h.old[k]]

\* the twin engines before any call: their memory caches, their clock, the
\* calls made and what their last get returned
NoTwin == [swept |-> <<>>, unswept |-> <<>>, clock |-> 0, calls |-> 0,
           found |-> <<None, None>>]

\* what get_zones returns: the mapping (val), or the exception it raised
NoZones == {}
NoDnsRet == [op |-> "none", val |-> NoZones, raised |-> "none", requested |-> FALSE]
NoRequests == [attempts |-> 0, network_errors |-> 0, rate_limited |-> 0, last_sleep |-> 0]

\* DNSManager.__init__
InitDNSManager ==
    /\ zones_cache = NoZones
    /\ call_stack = <<>>
    /\ request_log = NoRequests
    /\ zones_fetched = FALSE
    /\ dns_ret = NoDnsRet
    /\ dns_calls = 0

Init ==
    /\ now = 0
    /\ max_entries \in 1..MaxCap
    /\ cache_backend \in Backends
    /\ redis_client = FALSE
    /\ init_pc = "created"
    /\ memory_cache = <<>>
    /\ redis = {}
    /\ cache_stats = [hits |-> 0, misses |-> 0, sets |-> 0, deletes |-> 0, evictions |-> 0]
    /\ prefetch_tasks = [k \in Keys |-> 0]
    /\ pc = [p \in Procs |-> "idle"]
    /\ frame = [p \in Procs |-> NoFrame]
    /\ ret = [p \in Procs |-> NoRet]
    /\ quiet = [p \in Procs |-> FALSE]
    /\ redis_server \in IF cache_backend = "memory" THEN {"reachable"}
                       ELSE {"reachable", "unreachable"}
    /\ callers = {"p1"}
    /\ ops = 0
    /\ history = History(FALSE)
    /\ twin = NoTwin
    /\ InitDNSManager

(* ---------------- the clock and the Redis server ----------------------- *)
Tick ==
    /\ now + Step <= MaxTicks * Step
    \* a Redis call returns within the tick it was made in
    /\ \A p \in Procs : pc[p] = "idle"
    \* with nothing cached a run is the same run later
    /\ memory_cache # <<>> \/ redis # {}
    /\ now' = now + Step
    /\ redis' = Expire(redis, now + Step)
    /\ quiet' = [q \in Procs |-> FALSE]
    /\ UNCHANGED <<dns_vars, history, twin>>
    /\ UNCHANGED <<max_entries, cache_backend, redis_client, init_pc, memory_cache,
                   cache_stats, prefetch_tasks, pc, frame, ret, redis_server, callers, ops>>

(* ---------------- _initialize_backend ---------------------------------- *)
\* up to `await asyncio.to_thread(self.redis_client.ping)`
InitializeBackend ==
    /\ init_pc = "created"
    /\ IF cache_backend \in {"redis", "hybrid"}
       THEN redis_client' = TRUE /\ init_pc' = "ping"
       ELSE redis_client' = redis_client /\ init_pc' = "done"
    /\ UNCHANGED <<dns_vars, history, twin>>
    /\ UNCHANGED <<now, max_entries, cache_backend, memory_cache, redis, cache_stats,
                   prefetch_tasks, pc, frame, ret, quiet, redis_server, callers, ops>>

\* the ping answers or raises; then the cleanup task is started
PingReturns ==
    /\ init_pc = "ping"
    /\ \E outcome \in CallOutcomes :
          /\ cache_backend' = IF outcome = "RedisError" /\ cache_backend = "redis"
                              THEN "memory" ELSE cache_backend
          /\ init_pc' = IF outcome = "RedisError" THEN "ping_failed" ELSE "done"
    /\ UNCHANGED <<dns_vars, history, twin>>
    /\ UNCHANGED <<now, max_entries, redis_client, memory_cache, redis, cache_stats,
                   prefetch_tasks, pc, frame, ret, quiet, redis_server, callers, ops>>

(* ---------------- how an operation ends -------------------------------- *)
Returns(p, r) ==
    /\ pc' = [pc EXCEPT ![p] = "idle"]
    /\ frame' = [frame EXCEPT ![p] = NoFrame]
    /\ ret' = [ret EXCEPT ![p] = r]

Suspends(p, where, f) ==
    /\ pc' = [pc EXCEPT ![p] = where]
    /\ frame' = [frame EXCEPT ![p] = f]
    /\ ret' = ret

\* what the caller gets back: the value returned (val, or n for a count),
\* and the branch of the code that returned it (path)
Result(op, key, arg, val, n, path) ==
    [op |-> op, key |-> key, arg |-> arg, val |-> val, n |-> n, path |-> path,
     raised |-> FALSE]
\* an exception no handler caught reaches the caller
Raised(op, key, arg, exc) ==
    [op |-> op, key |-> key, arg |-> arg, val |-> None, n |-> 0, path |-> exc,
     raised |-> TRUE]

\* the exception a Redis call's outcome stands for
ExcOf(outcome) == IF outcome = "ok" THEN "none" ELSE outcome

(* ---------------- set --------------------------------------------------- *)
\* set(): up to the await of setex (or to the end, without Redis)
Set(p, domain, record_type, value, ttl, nameserver) ==
    LET cache_key == GenerateCacheKey(domain, record_type, nameserver)
        t == ClampTtl(ttl)
        entry == CacheEntry(cache_key, value, now, t)
        ev == EvictIfFull(Store(memory_cache, entry), max_entries)
    IN  /\ Idle(p)
        /\ ops' = ops + 1
        /\ quiet' = QuietStart(p)
        /\ memory_cache' = ev.cache
        /\ IF RedisEnabled
           THEN /\ cache_stats' = Bump(cache_stats, "evictions", ev.evicted)
                /\ Suspends(p, "setex", [NoFrame EXCEPT !.key = cache_key, !.ttl = t,
                                           !.data = ToDict(entry), !.value = value])
                /\ history' = SetStarted(history, p, cache_key, value)
           ELSE /\ cache_stats' = Bump(Bump(cache_stats, "evictions", ev.evicted), "sets", 1)
                /\ Returns(p, Result("set", cache_key, value, "True", 0, "memory"))
                /\ history' = SetCompleted(SetStarted(history, p, cache_key, value),
                                            p, cache_key, value)
        /\ UNCHANGED <<dns_vars, twin>>
        /\ UNCHANGED <<now, max_entries, cache_backend, redis_client, init_pc, redis,
                       prefetch_tasks, redis_server, callers>>

\* the setex call returns: `except Exception` logs a warning and set() goes on
SetexReturns(p) ==
    /\ pc[p] = "setex"
    /\ \E outcome \in CallOutcomes :
        LET f == frame[p]
            exc == ExcOf(outcome)
        IN  /\ redis' = IF exc = "none" THEN Setex(redis, f.key, f.ttl, f.data, now) ELSE redis
            /\ IF exc = "none" \/ ExceptException(exc)
               THEN /\ cache_stats' = Bump(cache_stats, "sets", 1)
                    /\ Returns(p, Result("set", f.key, f.value, "True", 0,
                                          IF exc = "none" THEN "redis" ELSE exc))
               ELSE /\ cache_stats' = cache_stats
                    /\ Returns(p, Raised("set", f.key, f.value, exc))
    /\ history' = SetCompleted(history, p, frame[p].key, frame[p].value)
    /\ quiet' = QuietStep(p)
    /\ UNCHANGED <<dns_vars, twin>>
    /\ UNCHANGED <<now, max_entries, cache_backend, redis_client, init_pc, memory_cache,
                   prefetch_tasks, redis_server, callers, ops>>

(* ---------------- get --------------------------------------------------- *)
\* the entry after a hit: access_count += 1, last_accessed = now
Touched(entry, t) ==
    [entry EXCEPT !.access_count = @ + 1, !.last_accessed = Datetime(t)]

\* get(): the memory cache, up to the await of the Redis get
Get(p, domain, record_type, nameserver) ==
    LET cache_key == GenerateCacheKey(domain, record_type, nameserver)
        hit == Has(memory_cache, cache_key)
        entry == Lookup(memory_cache, cache_key)
    IN  /\ Idle(p)
        /\ ops' = ops + 1
        /\ quiet' = QuietStep(p)
        /\ history' = GetStarted(history, p, cache_key)
        /\ IF hit /\ CompareRaises(entry.expires_at)
           THEN \* is_expired() raises; the outer handler counts a miss
                /\ memory_cache' = memory_cache
                /\ prefetch_tasks' = prefetch_tasks
                /\ IF ExceptException("TypeError")
                   THEN /\ cache_stats' = Bump(cache_stats, "misses", 1)
                        /\ Returns(p, Result("get", cache_key, None, None, 0, "TypeError"))
                   ELSE /\ cache_stats' = cache_stats
                        /\ Returns(p, Raised("get", cache_key, None, "TypeError"))
           ELSE IF hit /\ IsExpired(entry, now)
           THEN /\ memory_cache' = Remove(memory_cache, {cache_key})
                /\ cache_stats' = Bump(cache_stats, "misses", 1)
                /\ prefetch_tasks' = prefetch_tasks
                /\ Returns(p, Result("get", cache_key, None, None, 0, "expired"))
           ELSE IF hit
           THEN /\ memory_cache' = Store(memory_cache, Touched(entry, now))
                /\ cache_stats' = Bump(cache_stats, "hits", 1)
                /\ prefetch_tasks' =
                       IF IsStale(entry, now, PrefetchThreshold)
                       THEN [prefetch_tasks EXCEPT ![cache_key] = @ + 1]
                       ELSE prefetch_tasks
                /\ Returns(p, Result("get", cache_key, None, entry.value, 0, "memory"))
           ELSE IF RedisEnabled
           THEN /\ UNCHANGED <<memory_cache, cache_stats, prefetch_tasks>>
                /\ Suspends(p, "get", [NoFrame EXCEPT !.key = cache_key])
           ELSE /\ UNCHANGED <<memory_cache, prefetch_tasks>>
                /\ cache_stats' = Bump(cache_stats, "misses", 1)
                /\ Returns(p, Result("get", cache_key, None, None, 0, "miss"))
        /\ UNCHANGED <<dns_vars, twin>>
        /\ UNCHANGED <<now, max_entries, cache_backend, redis_client, init_pc, redis,
                       redis_server, callers>>

\* the exception the Redis branch of get() meets, if any: the call's own, or
\* the TypeError of is_expired() on the entry rebuilt from the stored dict
GetRedisExc(outcome, k) ==
    IF outcome # "ok" THEN outcome
    ELSE IF RedisHas(k) /\ CompareRaises(RedisData(k).expires_at) THEN "TypeError"
    ELSE "none"

\* the Redis get returns
GetReturns(p) ==
    /\ pc[p] = "get"
    /\ \E outcome \in CallOutcomes :
        LET k == frame[p].key
            exc == GetRedisExc(outcome, k)
            found == exc = "none" /\ RedisHas(k)
            entry == RedisData(k)
            live == found /\ ~IsExpired(entry, now)
        IN  /\ memory_cache' = IF live /\ cache_backend = "hybrid"
                               THEN Store(memory_cache, Touched(entry, now))
                               ELSE memory_cache
            \* an expired entry is deleted from Redis
            /\ redis' = IF found /\ ~live THEN Del(redis, {k}) ELSE redis
            /\ IF exc # "none" /\ ~ExceptException(exc)
               THEN /\ cache_stats' = cache_stats
                    /\ Returns(p, Raised("get", k, None, exc))
               ELSE IF live
               THEN /\ cache_stats' = Bump(cache_stats, "hits", 1)
                    /\ Returns(p, Result("get", k, None, entry.value, 0, "redis"))
               ELSE /\ cache_stats' = Bump(cache_stats, "misses", 1)
                    /\ Returns(p, Result("get", k, None, None, 0,
                                          IF exc = "none" THEN "miss" ELSE exc))
    /\ quiet' = QuietStep(p)
    /\ UNCHANGED <<dns_vars, history, twin>>
    /\ UNCHANGED <<now, max_entries, cache_backend, redis_client, init_pc,
                   prefetch_tasks, redis_server, callers, ops>>

(* ---------------- delete ------------------------------------------------ *)
PyBool(b) == IF b THEN "True" ELSE "False"

\* a delete that counts every attempt, removed or not
DeleteEndsCountingAttempts(p, k, deleted, path) ==
    /\ cache_stats' = Bump(cache_stats, "deletes", 1)
    /\ Returns(p, Result("delete", k, None, PyBool(deleted), 0, path))

\* the end of delete(): count it, return it
DeleteEnds(p, k, deleted, path) ==
    /\ cache_stats' = IF deleted THEN Bump(cache_stats, "deletes", 1) ELSE cache_stats
    /\ Returns(p, Result("delete", k, None, PyBool(deleted), 0, path))

\* delete(): the memory cache, up to the await of the Redis delete
Delete(p, domain, record_type, nameserver) ==
    LET cache_key == GenerateCacheKey(domain, record_type, nameserver)
        deleted == Has(memory_cache, cache_key)
    IN  /\ Idle(p)
        /\ ops' = ops + 1
        /\ quiet' = QuietStart(p)
        /\ memory_cache' = Remove(memory_cache, {cache_key})
        /\ IF RedisEnabled
           THEN /\ cache_stats' = cache_stats
                /\ Suspends(p, "delete", [NoFrame EXCEPT !.key = cache_key,
                                                         !.deleted = deleted])
           ELSE DeleteEnds(p, cache_key, deleted, "memory")
        /\ UNCHANGED <<dns_vars, history, twin>>
        /\ UNCHANGED <<now, max_entries, cache_backend, redis_client, init_pc, redis,
                       prefetch_tasks, redis_server, callers>>

\* the Redis delete returns the number of keys it removed, or raises
DeleteReturns(p) ==
    /\ pc[p] = "delete"
    /\ \E outcome \in CallOutcomes :
        LET f == frame[p]
            exc == ExcOf(outcome)
            redis_deleted == IF exc = "none" /\ RedisHas(f.key) THEN 1 ELSE 0
        IN  /\ redis' = IF exc = "none" THEN Del(redis, {f.key}) ELSE redis
            /\ IF exc = "none" \/ ExceptException(exc)
               THEN DeleteEnds(p, f.key, f.deleted \/ redis_deleted > 0,
                               IF exc = "none" THEN "redis" ELSE exc)
               ELSE /\ cache_stats' = cache_stats
                    /\ Returns(p, Raised("delete", f.key, None, exc))
    /\ quiet' = QuietStep(p)
    /\ UNCHANGED <<dns_vars, history, twin>>
    /\ UNCHANGED <<now, max_entries, cache_backend, redis_client, init_pc, memory_cache,
                   prefetch_tasks, redis_server, callers, ops>>

(* ---------------- invalidate_domain ------------------------------------ *)
\* the test both scans apply to a key and the value stored under it
BelongsToDomain(domain_lower, cache_key, value) ==
    DomainInDigest(domain_lower, cache_key) \/ DomainInValue(domain_lower, value)

\* invalidate_domain(): the memory cache, up to the await of keys('*')
InvalidateDomain(p, domain) ==
    LET domain_lower == Lower(domain)
        keys_to_delete ==
            {memory_cache[i].key : i \in {j \in 1..Len(memory_cache) :
                BelongsToDomain(domain_lower, memory_cache[j].key, memory_cache[j].value)}}
        deleted_count == Cardinality(keys_to_delete)
    IN  /\ Idle(p)
        /\ ops' = ops + 1
        /\ quiet' = QuietStart(p)
        /\ memory_cache' = Remove(memory_cache, keys_to_delete)
        /\ IF RedisEnabled
           THEN Suspends(p, "keys", [NoFrame EXCEPT !.domain = domain_lower,
                                                    !.count = deleted_count])
           ELSE Returns(p, Result("invalidate", NoKey, domain_lower, None, deleted_count,
                                  "memory"))
        /\ UNCHANGED <<dns_vars, history, twin>>
        /\ UNCHANGED <<now, max_entries, cache_backend, redis_client, init_pc, redis,
                       cache_stats, prefetch_tasks, redis_server, callers>>

\* keys('*') returns, and the loop reads every key it listed; a get that
\* raises skips its key (`except Exception: continue`).  The loop is taken as
\* one step.
KeysReturns(p) ==
    /\ pc[p] = "keys"
    /\ \E outcome \in CallOutcomes :
        LET f == frame[p]
            exc == ExcOf(outcome)
            all_keys == {r.key : r \in redis}
        IN  /\ IF exc # "none" /\ ~ExceptException(exc)
               THEN Returns(p, Raised("invalidate", NoKey, f.domain, exc))
               ELSE IF exc # "none"
               THEN Returns(p, Result("invalidate", NoKey, f.domain, None, f.count, exc))
               ELSE \E unread \in SUBSET all_keys :
                      LET keys_to_delete ==
                              {k \in all_keys \ unread :
                                  BelongsToDomain(f.domain, k, RedisData(k).value)}
                      IN  IF keys_to_delete = {}
                          THEN Returns(p, Result("invalidate", NoKey, f.domain, None, f.count,
                                                 "redis"))
                          ELSE Suspends(p, "del_keys", [f EXCEPT !.keys = keys_to_delete])
    /\ quiet' = QuietStep(p)
    /\ UNCHANGED <<dns_vars, history, twin>>
    /\ UNCHANGED <<now, max_entries, cache_backend, redis_client, init_pc, memory_cache,
                   redis, cache_stats, prefetch_tasks, redis_server, callers, ops>>

\* delete(*keys_to_delete) returns the number of keys it removed, or raises
DelKeysReturns(p) ==
    /\ pc[p] = "del_keys"
    /\ \E outcome \in CallOutcomes :
        LET f == frame[p]
            exc == ExcOf(outcome)
            redis_deleted == Cardinality({k \in f.keys : RedisHas(k)})
        IN  /\ redis' = IF exc = "none" THEN Del(redis, f.keys) ELSE redis
            /\ IF exc # "none" /\ ~ExceptException(exc)
               THEN Returns(p, Raised("invalidate", NoKey, f.domain, exc))
               ELSE IF exc # "none"
               THEN Returns(p, Result("invalidate", NoKey, f.domain, None, f.count, exc))
               ELSE Returns(p, Result("invalidate", NoKey, f.domain, None,
                                      f.count + redis_deleted, "redis"))
    /\ quiet' = QuietStep(p)
    /\ UNCHANGED <<dns_vars, history, twin>>
    /\ UNCHANGED <<now, max_entries, cache_backend, redis_client, init_pc, memory_cache,
                   cache_stats, prefetch_tasks, redis_server, callers, ops>>

(* ---------------- clear_cache ------------------------------------------- *)
\* clear_cache(): the memory cache, up to the await of flushdb
ClearCache(p) ==
    LET memory_count == Len(memory_cache)
    IN  /\ Idle(p)
        /\ ops' = ops + 1
        /\ quiet' = QuietStart(p)
        /\ memory_cache' = <<>>
        /\ IF RedisEnabled
           THEN Suspends(p, "flushdb", [NoFrame EXCEPT !.count = memory_count])
           ELSE Returns(p, Result("clear", NoKey, None, None, memory_count, "memory"))
        /\ UNCHANGED <<dns_vars, history, twin>>
        /\ UNCHANGED <<now, max_entries, cache_backend, redis_client, init_pc, redis,
                       cache_stats, prefetch_tasks, redis_server, callers>>

\* flushdb returns True, which counts as 1 in memory_count + redis_count, or
\* raises, and redis_count stays 0
FlushdbReturns(p) ==
    /\ pc[p] = "flushdb"
    /\ \E outcome \in CallOutcomes :
        LET f == frame[p]
            exc == ExcOf(outcome)
            redis_count == IF exc = "none" THEN 1 ELSE 0
        IN  /\ redis' = IF exc = "none" THEN {} ELSE redis
            /\ IF exc = "none" \/ ExceptException(exc)
               THEN Returns(p, Result("clear", NoKey, None, None, f.count + redis_count,
                                      IF exc = "none" THEN "redis" ELSE exc))
               ELSE Returns(p, Raised("clear", NoKey, None, exc))
    /\ quiet' = QuietStep(p)
    /\ UNCHANGED <<dns_vars, history, twin>>
    /\ UNCHANGED <<now, max_entries, cache_backend, redis_client, init_pc, memory_cache,
                   cache_stats, prefetch_tasks, redis_server, callers, ops>>

(* ---------------- background tasks ------------------------------------- *)
\* one run of _periodic_cleanup (the sleep is over): expired entries go; an
\* exception ends the run, not the loop
PeriodicCleanup ==
    /\ Initialized
    /\ memory_cache' =
          IF \E i \in 1..Len(memory_cache) : CompareRaises(memory_cache[i].expires_at)
          THEN memory_cache
          ELSE SelectSeq(memory_cache, LAMBDA e : ~IsExpired(e, now))
    /\ UNCHANGED <<dns_vars, history, twin>>
    /\ UNCHANGED <<now, max_entries, cache_backend, redis_client, init_pc, redis,
                   cache_stats, prefetch_tasks, pc, frame, ret, quiet, redis_server, callers, ops>>

\* one _prefetch_record task runs: it logs, and fetches nothing
PrefetchRecord(k) ==
    /\ prefetch_tasks[k] > 0
    /\ prefetch_tasks' = [prefetch_tasks EXCEPT ![k] = @ - 1]
    /\ UNCHANGED <<dns_vars, history, twin>>
    /\ UNCHANGED <<now, max_entries, cache_backend, redis_client, init_pc, memory_cache,
                   redis, cache_stats, pc, frame, ret, quiet, redis_server, callers, ops>>

(* ---------------- get_cache_stats ---------------------------------------- *)
\* a float, kept as the fraction <<numerator, denominator>>
Fraction(n, d) == <<n, d>>
FractionEq(a, b) == a[1] * b[2] = b[1] * a[2]
FractionAdd(a, b) == <<a[1] * b[2] + b[1] * a[2], a[2] * b[2]>>
\* 1 - a
OneMinus(a) == <<a[2] - a[1], a[2]>>

\* a total that counts the sets as requests too
TotalOperations(stats) == stats.hits + stats.misses + stats.sets

\* total_requests = hits + misses
TotalRequests(stats) == stats.hits + stats.misses

\* get_cache_stats(): the figures it reports in the current state; an
\* exception while it reads the entries gives CacheStats(0, 0, 0, ...)
GetCacheStats ==
    LET total_requests == TotalRequests(cache_stats)
        hit_rate == IF total_requests > 0
                    THEN Fraction(cache_stats.hits, total_requests)
                    ELSE Fraction(0, 1)
        miss_rate == OneMinus(hit_rate)
        expired_count ==
            Cardinality({i \in 1..Len(memory_cache) : IsExpired(memory_cache[i], now)})
    IN  IF \E i \in 1..Len(memory_cache) : CompareRaises(memory_cache[i].expires_at)
        THEN IF ExceptException("TypeError")
             THEN [total_entries |-> 0, hit_rate |-> Fraction(0, 1),
                   miss_rate |-> Fraction(0, 1), expired_entries |-> 0, raised |-> FALSE]
             ELSE [total_entries |-> 0, hit_rate |-> Fraction(0, 1),
                   miss_rate |-> Fraction(0, 1), expired_entries |-> 0, raised |-> TRUE]
        ELSE [total_entries |-> Len(memory_cache), hit_rate |-> hit_rate,
              miss_rate |-> miss_rate, expired_entries |-> expired_count,
              raised |-> FALSE]

(* ---------------- the system ------------------------------------------- *)
Next ==
    \/ Tick
    \/ InitializeBackend
    \/ PingReturns
    \/ PeriodicCleanup
    \/ \E k \in Keys : PrefetchRecord(k)
    \/ \E p \in Procs, r \in Requests :
          \/ \E a \in Answers : Set(p, r[1], r[2], a[1], a[2], r[3])
          \/ Get(p, r[1], r[2], r[3])
          \/ Delete(p, r[1], r[2], r[3])
    \/ \E p \in Procs, d \in DomainInputs : InvalidateDomain(p, d)
    \/ \E p \in Procs :
          \/ ClearCache(p)
          \/ FlushdbReturns(p)
          \/ SetexReturns(p)
          \/ GetReturns(p)
          \/ DeleteReturns(p)
          \/ KeysReturns(p)
          \/ DelKeysReturns(p)

Spec == Init /\ [][Next]_vars

(* ======================================================================= *)
(* Properties                                                              *)
(* ======================================================================= *)
KeyOf(r) == GenerateCacheKey(r[1], r[2], r[3])
\* caller p finishes a get of key k in this step
GetDone(p, k) ==
    /\ pc'[p] = "idle"
    /\ ret'[p].op = "get"
    /\ ret'[p].key = k
    /\ \/ pc[p] = "get" /\ frame[p].key = k
       \/ pc[p] = "idle" /\ ops' = ops + 1

\* C1 (round trip): when a caller's set has returned True and the same
\* caller's next operation, with no time passed and no other caller in
\* between, is a get of the same key, that get returns the value just
\* written.
RoundTrip ==
    [][\A p \in Procs :
          (/\ pc[p] \in {"idle", "get"}
           /\ ret[p].op = "set" /\ ret[p].val = "True"
           /\ quiet[p]
           /\ GetDone(p, ret[p].key))
          => ret'[p].val = ret[p].arg]_vars

\* C2 (lazy expiry): a get that finds in the memory cache an entry with
\* now > expires_at returns not-found, leaves the memory cache without that
\* entry, and adds one to the misses and nothing to the hits.
LazyExpiry ==
    [][\A p \in Procs, r \in Requests :
          (/\ Get(p, r[1], r[2], r[3])
           /\ Has(memory_cache, KeyOf(r))
           /\ now > Lookup(memory_cache, KeyOf(r)).expires_at[2])
          => /\ ret'[p].op = "get" /\ ret'[p].key = KeyOf(r)
             /\ ret'[p].val = None /\ ~ret'[p].raised
             /\ ~Has(memory_cache', KeyOf(r))
             /\ cache_stats'.misses = cache_stats.misses + 1
             /\ cache_stats'.hits = cache_stats.hits]_vars

\* a get has just answered not-found for an entry it found expired
LazyExpiryWitness ==
    \E p \in Procs :
        /\ ret[p].op = "get" /\ ret[p].path = "expired" /\ ret[p].val = None
        /\ ~Has(memory_cache, ret[p].key)
        /\ cache_stats.misses > 0

\* the ttl the contract asks set to store for a requested ttl
ExpectedTtl(ttl) ==
    LET given == IF ttl = NoTtl THEN TtlDefault ELSE ttl
    IN  IF given > TtlMax THEN TtlMax ELSE IF given < TtlMin THEN TtlMin ELSE given

TtlInRange ==
    /\ \A i \in 1..Len(memory_cache) :
          memory_cache[i].ttl >= TtlMin /\ memory_cache[i].ttl <= TtlMax
    /\ \A e \in redis : e.data.ttl >= TtlMin /\ e.data.ttl <= TtlMax
    /\ \A p \in Procs : ret[p].op = "set" => ret[p].val = "True" /\ ~ret[p].raised

\* C3 (ttl clamping): every stored entry has ttl_min <= ttl <= ttl_max and
\* no set is refused; the entry a set stores has the requested ttl when that
\* is in range, ttl_max when it is above, ttl_min when it is below, and the
\* clamped ttl_default when none was given, and expires that long from now.
TtlClamping ==
    /\ []TtlInRange
    /\ [][\A p \in Procs, r \in Requests, a \in Answers :
             Set(p, r[1], r[2], a[1], a[2], r[3])
             => /\ Has(memory_cache', KeyOf(r)) =>
                     /\ Lookup(memory_cache', KeyOf(r)).ttl = ExpectedTtl(a[2])
                     /\ Lookup(memory_cache', KeyOf(r)).expires_at
                            = Datetime(now + ExpectedTtl(a[2]))
                /\ pc'[p] = "setex" => frame'[p].ttl = ExpectedTtl(a[2])
                /\ pc'[p] = "idle" => ret'[p].val = "True"]_vars

\* entries are held with a ttl cut down to ttl_max and with a ttl raised to
\* ttl_min
TtlClampingWitness ==
    /\ \E i \in 1..Len(memory_cache) :
          memory_cache[i].ttl = TtlMax /\ memory_cache[i].value = "1.2.3.4"
    /\ \E i \in 1..Len(memory_cache) :
          memory_cache[i].ttl = TtlMin /\ memory_cache[i].value = "mail.a.com"

\* C4 (domain invalidation): invalidate_domain(d) removes from the memory
\* cache exactly the entries cached for domain d and no other entry, and
\* without a Redis tier the count it returns is the number of those entries.
DomainInvalidation ==
    [][\A p \in Procs, d \in DomainInputs :
          InvalidateDomain(p, d)
          => LET of_domain == {k \in CacheKeys(memory_cache) : k[1] = Lower(d)}
             IN  /\ CacheKeys(memory_cache') = CacheKeys(memory_cache) \ of_domain
                 /\ pc'[p] = "idle" =>
                       /\ ret'[p].op = "invalidate"
                       /\ ret'[p].n = Cardinality(of_domain)]_vars

\* C5 (eviction): a set that takes the memory cache above max_entries leaves
\* exactly floor(max_entries * 0.9) entries and adds the number of entries
\* removed to the evictions counter; any other set removes nothing and
\* leaves the counter as it was.
Eviction ==
    [][\A p \in Procs, r \in Requests, a \in Answers :
          Set(p, r[1], r[2], a[1], a[2], r[3])
          => LET size == Cardinality(CacheKeys(memory_cache) \cup {KeyOf(r)})
             IN  IF size > max_entries
                 THEN /\ Len(memory_cache') = (9 * max_entries) \div 10
                      /\ cache_stats'.evictions
                             = cache_stats.evictions + (size - Len(memory_cache'))
                 ELSE /\ Len(memory_cache') = size
                      /\ CacheKeys(memory_cache')
                             = CacheKeys(memory_cache) \cup {KeyOf(r)}
                      /\ cache_stats'.evictions = cache_stats.evictions]_vars

\* an eviction has removed more than one entry in one set
EvictionWitness ==
    /\ cache_stats.evictions >= 2
    /\ cache_stats.sets + Cardinality({p \in Procs : pc[p] = "setex"}) = max_entries + 1
    /\ Len(memory_cache) = (9 * max_entries) \div 10

\* C6 (no raise): no get, set, delete or invalidate_domain ends with an
\* exception reaching its caller, whatever the backend and whichever Redis
\* calls fail; a get that met a failure answers not-found, set and delete
\* answer a boolean and invalidate_domain a count.
NoRaise ==
    \A p \in Procs :
        /\ ~ret[p].raised
        /\ ret[p].op = "get" /\ ret[p].path \in {"RedisError", "TypeError"}
              => ret[p].val = None
        /\ ret[p].op \in {"set", "delete"} => ret[p].val \in {"True", "False"}
        /\ ret[p].op = "invalidate" => ret[p].n >= 0

\* every operation has returned from a failed Redis call at some time: here
\* a get whose Redis call raised
NoRaiseWitness ==
    \E p \in Procs :
        /\ ret[p].op = "get" /\ ret[p].path = "RedisError" /\ ~ret[p].raised
        /\ redis_client

\* the Redis server failed the ping and fails every call after it
RemoteDown == redis_client /\ redis_server = "unreachable" /\ init_pc = "ping_failed"

\* C7 (best-effort remote tier): with a Redis tier configured and a server
\* that fails the ping and every later call, a set returns True and its
\* entry is in the memory cache when it returns, and a get of the same key
\* that follows returns the value from the memory cache.
BestEffortRemote ==
    /\ [](\A p \in Procs :
            (RemoteDown /\ pc[p] = "idle" /\ ret[p].op = "set" /\ quiet[p])
            => /\ ret[p].val = "True"
               /\ Has(memory_cache, ret[p].key)
               /\ Lookup(memory_cache, ret[p].key).value = ret[p].arg)
    /\ [][\A p \in Procs :
            (/\ RemoteDown /\ ret[p].op = "set" /\ quiet[p]
             /\ GetDone(p, ret[p].key))
            => ret'[p].val = ret[p].arg /\ ret'[p].path = "memory"]_vars

\* C8 (prefetch de-duplication): at any time at most one prefetch task is
\* outstanding for a key.
PrefetchDeduplicated == \A k \in Keys : prefetch_tasks[k] <= 1

\* C9 (delete removes from both tiers): once a delete has returned, and until
\* anyone else acts, its key is neither in the memory cache nor in Redis, and
\* a get of that key that follows returns not-found.
DeleteBothTiers ==
    /\ [](\A p \in Procs :
            (pc[p] = "idle" /\ ret[p].op = "delete" /\ quiet[p])
            => ~Has(memory_cache, ret[p].key) /\ ~RedisHas(ret[p].key))
    /\ [][\A p \in Procs :
            (ret[p].op = "delete" /\ quiet[p] /\ GetDone(p, ret[p].key))
            => ret'[p].val = None]_vars

\* Redis is in use and holds an unexpired entry for key k
RemoteHolds(k) ==
    /\ RedisEnabled
    /\ RedisHas(k)
    /\ now <= RedisData(k).expires_at[2]
\* the memory cache holds an unexpired entry for key k
LocalHolds(k) ==
    /\ Has(memory_cache, k)
    /\ now <= Lookup(memory_cache, k).expires_at[2]

\* C10 (remote fallback and promotion): a get of a key for which Redis holds
\* an unexpired entry and the memory cache holds none, or an expired one,
\* returns the value Redis holds and counts a hit; afterwards the entry is in
\* the memory cache in hybrid mode and is not in redis mode.
RemoteFallback ==
    [][\A p \in Procs, k \in Keys :
          (GetDone(p, k) /\ RemoteHolds(k) /\ ~LocalHolds(k))
          => /\ ret'[p].val = RedisData(k).value
             /\ cache_stats'.hits = cache_stats.hits + 1
             /\ cache_stats'.misses = cache_stats.misses
             /\ cache_backend = "hybrid" => Has(memory_cache', k)
             /\ cache_backend = "redis" => ~Has(memory_cache', k)]_vars

\* C11 (permanent degradation): once the ping of _initialize_backend has
\* failed, no cache operation issues a Redis call: no caller is ever
\* suspended in one.
PermanentDegradation ==
    init_pc = "ping_failed" => \A p \in Procs : pc[p] = "idle"

\* C12 (idempotent delete): a delete of a key that neither the memory cache
\* nor Redis holds returns False and leaves the memory cache, Redis and the
\* five counters as they were, in the step that starts it and in the step
\* that ends it.
IdempotentDelete ==
    /\ [][\A p \in Procs, r \in Requests :
            (/\ Delete(p, r[1], r[2], r[3])
             /\ ~Has(memory_cache, KeyOf(r)) /\ ~RedisHas(KeyOf(r)))
            => /\ memory_cache' = memory_cache /\ redis' = redis
               /\ cache_stats' = cache_stats
               /\ pc'[p] = "idle" =>
                     /\ ret'[p].op = "delete" /\ ret'[p].key = KeyOf(r)
                     /\ ret'[p].val = "False"]_vars
    /\ [][\A p \in Procs :
            (/\ DeleteReturns(p)
             /\ ~frame[p].deleted /\ ~RedisHas(frame[p].key))
            => /\ memory_cache' = memory_cache /\ redis' = redis
               /\ cache_stats' = cache_stats
               /\ ret'[p].op = "delete" /\ ret'[p].key = frame[p].key
               /\ ret'[p].val = "False"]_vars

\* a delete of an absent key has asked Redis and returned False
IdempotentDeleteWitness ==
    \E p \in Procs :
        /\ ret[p].op = "delete" /\ ret[p].val = "False"
        /\ ret[p].path = "redis"
        /\ cache_stats.deletes = 0 /\ cache_stats.sets > 0
        /\ ~Has(memory_cache, ret[p].key) /\ ~RedisHas(ret[p].key)

\* C13 (stats consistency): in every state with hits + misses > 0 the
\* hit_rate and miss_rate that get_cache_stats reports add up to 1, and the
\* hit_rate is hits / (hits + misses).
StatsConsistency ==
    cache_stats.hits + cache_stats.misses > 0
    => /\ FractionEq(FractionAdd(GetCacheStats.hit_rate, GetCacheStats.miss_rate),
                     Fraction(1, 1))
       /\ FractionEq(GetCacheStats.hit_rate,
                     Fraction(cache_stats.hits, cache_stats.hits + cache_stats.misses))
       /\ ~GetCacheStats.raised

\* hits and misses have both been counted, between sets
StatsConsistencyWitness ==
    /\ cache_stats.hits > 0 /\ cache_stats.misses > 0 /\ cache_stats.sets > 0
    /\ GetCacheStats.hit_rate = Fraction(cache_stats.hits,
                                         cache_stats.hits + cache_stats.misses)

\* C14 (stale is a sub-window before expiry): for every cached entry at every
\* time, is_stale implies not is_expired, and is_stale holds exactly when
\* expires_at - prefetch_threshold < now <= expires_at.
StaleBeforeExpiry ==
    \A i \in 1..Len(memory_cache) :
        LET entry == memory_cache[i]
        IN  /\ IsStale(entry, now, PrefetchThreshold) => ~IsExpired(entry, now)
            /\ IsStale(entry, now, PrefetchThreshold)
                  <=> /\ entry.expires_at[2] - PrefetchThreshold < now
                      /\ now <= entry.expires_at[2]

\* C15 (clear): when clear_cache returns, the memory cache is empty and so is
\* Redis when it is in use, and the count returned is the number of entries
\* removed from the two.
Clear ==
    /\ [][\A p \in Procs :
            ClearCache(p)
            => /\ memory_cache' = <<>>
               /\ pc'[p] = "idle" =>
                     /\ ret'[p].op = "clear"
                     /\ ret'[p].n = Len(memory_cache)]_vars
    /\ [][\A p \in Procs :
            FlushdbReturns(p)
            => /\ redis' = {}
               /\ ret'[p].op = "clear"
               /\ ret'[p].n = frame[p].count + Cardinality(redis)]_vars

(* ---------------- the expiry scenario: every set asks for ttl = 1 -------- *)
NextExpiry ==
    \/ Tick
    \/ InitializeBackend
    \/ PingReturns
    \/ PeriodicCleanup
    \/ \E k \in Keys : PrefetchRecord(k)
    \/ \E p \in Procs, r \in Requests :
          \/ Set(p, r[1], r[2], "1.2.3.4", 1, r[3])
          \/ Get(p, r[1], r[2], r[3])
    \/ \E p \in Procs :
          \/ SetexReturns(p)
          \/ GetReturns(p)

SpecExpiry == Init /\ [][NextExpiry]_vars

\* C16 as claimed (expiry scenario): after set(..., ttl=1), a get of the same
\* key that starts at least 1.1 seconds after the set, with no set in
\* between, returns not-found.
ExpiryAfterOneSecond ==
    [][\A p \in Procs, r \in Requests :
          (/\ Get(p, r[1], r[2], r[3])
           /\ Has(memory_cache, KeyOf(r))
           /\ now >= Lookup(memory_cache, KeyOf(r)).created_at[2] + 2)
          => pc'[p] = "idle" /\ ret'[p].val = None]_vars

\* C16 as amended: set(..., ttl=1) stores its entry with ttl_min (60 s): a get
\* of the same key, with no set in between, returns the value when it starts
\* at most ttl_min seconds after the set and finds the entry still cached,
\* and returns not-found and removes the entry when it starts later.
ExpiryAfterTtlMin ==
    [][\A p \in Procs, r \in Requests :
          (Get(p, r[1], r[2], r[3]) /\ Has(memory_cache, KeyOf(r)))
          => LET entry == Lookup(memory_cache, KeyOf(r))
             IN  /\ pc'[p] = "idle" /\ ret'[p].op = "get"
                 /\ IF now > entry.created_at[2] + TtlMin
                    THEN ret'[p].val = None /\ ~Has(memory_cache', KeyOf(r))
                    ELSE ret'[p].val = entry.value]_vars

\* a get more than ttl_min seconds after the set has found the entry expired,
\* and the entry a set(..., ttl=1) stored is served 40 s later
ExpiryAfterTtlMinWitness ==
    \E p \in Procs :
        /\ ret[p].op = "get" /\ now > TtlMin
        /\ \/ ret[p].path = "expired" /\ ret[p].val = None
           \/ /\ ret[p].path = "memory" /\ ret[p].val = "1.2.3.4"
              /\ Has(memory_cache, ret[p].key)
              /\ Lookup(memory_cache, ret[p].key).created_at[2] + TtlMin >= now

(* ======================================================================= *)
(* DNSManager: _make_request and get_zones                                 *)
(* ======================================================================= *)
\* the `result` lists that GET /zones can answer with
ZoneListings ==
    { <<>>,
      <<[name |-> "a.com", id |-> "z1"]>>,
      <<[name |-> "a.com", id |-> "z1"], [name |-> "b.com", id |-> "z2"]>> }

\* zones[zone['name']] = zone['id'] for every zone of the result
ZonesOf(result) == {<<result[i].name, result[i].id>> : i \in 1..Len(result)}

\* a dict is true in a condition when it is not empty
Truthy(zones) == zones # {}

\* `not force_refresh and self.zones_cache`
ServedFromCache(force_refresh) == ~force_refresh /\ Truthy(zones_cache)

RECURSIVE Pow(_, _)
Pow(b, e) == IF e = 0 THEN 1 ELSE b * Pow(b, e - 1)

\* a _make_request frame: its retry_count, and where it stands: "running"
\* (about to send), "try" (awaiting the call it made after a 429, inside the
\* try block) or "except" (awaiting the call it made in the except handler)
Frame(retry_count, at) == [retry_count |-> retry_count, at |-> at]
Top(stack) == stack[Len(stack)]
Pop(stack) == SubSeq(stack, 1, Len(stack) - 1)

\* an exception leaves the frames that await in their except handler and
\* stops at the first frame that awaits inside its try block
RECURSIVE Unwind(_)
Unwind(stack) ==
    IF stack = <<>> \/ Top(stack).at = "try" THEN stack ELSE Unwind(Pop(stack))

\* `if retry_count < self.config['retry']['max_attempts']`
MayRetry(retry_count) == retry_count < MaxAttempts

\* a RequestException is raised inside the try block of the top frame: the
\* frame retries with retry_count + 1, or re-raises to the frame that awaits it
RECURSIVE OnRequestException(_)
OnRequestException(stack) ==
    IF stack = <<>> THEN <<>>
    ELSE LET top == Top(stack)
         IN  IF MayRetry(top.retry_count)
             THEN Append(Append(Pop(stack), Frame(top.retry_count, "except")),
                         Frame(top.retry_count + 1, "running"))
             ELSE OnRequestException(Unwind(Pop(stack)))

\* get_zones ends: with the mapping, or with the exception it re-raises
ZonesReturned(zones, requested) ==
    [op |-> "get_zones", val |-> zones, raised |-> "none", requested |-> requested]
ZonesRaised(exc) ==
    [op |-> "get_zones", val |-> NoZones, raised |-> exc, requested |-> TRUE]

\* get_zones(force_refresh), up to the first request of _make_request
GetZones(force_refresh) ==
    /\ call_stack = <<>>
    /\ dns_calls < MaxCalls
    /\ dns_calls' = dns_calls + 1
    /\ IF ServedFromCache(force_refresh)
       THEN /\ dns_ret' = ZonesReturned(zones_cache, FALSE)
            /\ UNCHANGED <<call_stack, request_log>>
       ELSE /\ call_stack' = <<Frame(0, "running")>>
            /\ request_log' = NoRequests
            /\ dns_ret' = NoDnsRet
    /\ UNCHANGED <<zones_cache, zones_fetched>>
    /\ UNCHANGED cache_vars

\* self.session.request answers 429: sleep Retry-After, call again with the
\* same retry_count
RateLimited ==
    /\ call_stack # <<>>
    /\ request_log.rate_limited < MaxRateLimited
    /\ call_stack' = Append(Append(Pop(call_stack), Frame(Top(call_stack).retry_count, "try")),
                            Frame(Top(call_stack).retry_count, "running"))
    /\ request_log' = [request_log EXCEPT !.attempts = @ + 1, !.rate_limited = @ + 1,
                                          !.last_sleep = RetryAfterDefault]
    /\ UNCHANGED <<zones_cache, zones_fetched, dns_ret, dns_calls>>
    /\ UNCHANGED cache_vars

\* self.session.request raises a RequestException (or raise_for_status does)
RequestFails ==
    /\ call_stack # <<>>
    /\ LET after == OnRequestException(call_stack)
       IN  /\ call_stack' = after
           /\ request_log' =
                 [request_log EXCEPT !.attempts = @ + 1, !.network_errors = @ + 1,
                     !.last_sleep = IF after = <<>> THEN @
                                    ELSE Pow(BackoffFactor, Top(after).retry_count - 1)]
           /\ dns_ret' = IF after = <<>> THEN ZonesRaised("RequestException") ELSE dns_ret
    /\ UNCHANGED <<zones_cache, zones_fetched, dns_calls>>
    /\ UNCHANGED cache_vars

\* the API answers success = false: CloudflareAPIError, which no frame catches
ApiError ==
    /\ call_stack # <<>>
    /\ call_stack' = <<>>
    /\ request_log' = [request_log EXCEPT !.attempts = @ + 1]
    /\ dns_ret' = ZonesRaised("CloudflareAPIError")
    /\ UNCHANGED <<zones_cache, zones_fetched, dns_calls>>
    /\ UNCHANGED cache_vars

\* the API answers with the zones: every frame returns, get_zones caches them
RequestSucceeds ==
    /\ call_stack # <<>>
    /\ \E result \in ZoneListings :
          /\ zones_cache' = ZonesOf(result)
          /\ dns_ret' = ZonesReturned(ZonesOf(result), TRUE)
    /\ call_stack' = <<>>
    /\ request_log' = [request_log EXCEPT !.attempts = @ + 1]
    /\ zones_fetched' = TRUE
    /\ UNCHANGED dns_calls
    /\ UNCHANGED cache_vars

NextDns ==
    \/ \E force_refresh \in BOOLEAN : GetZones(force_refresh)
    \/ RateLimited
    \/ RequestFails
    \/ ApiError
    \/ RequestSucceeds

\* the cache engine is not used in these runs
InitDns ==
    /\ Init
    /\ cache_backend = "memory"
    /\ max_entries = MaxCap

SpecDns == InitDns /\ [][NextDns]_vars

\* C17 (Cloudflare request retry): a call makes at most max_attempts + 1 HTTP
\* attempts that fail with a network error, and when it re-raises the error
\* exactly max_attempts retries have failed after the first attempt.
RequestRetry ==
    /\ request_log.network_errors <= MaxAttempts + 1
    /\ dns_ret.raised = "RequestException" => request_log.network_errors = MaxAttempts + 1

\* C18 (zone cache): once a get_zones call has succeeded, get_zones(False)
\* returns the cached mapping without a request; get_zones(True) issues a
\* request, and its result replaces the cache; a failed request leaves the
\* cache as it was.
ZoneCache ==
    /\ [][(zones_fetched /\ GetZones(FALSE))
            => /\ dns_ret' = ZonesReturned(zones_cache, FALSE)
               /\ call_stack' = <<>>
               /\ request_log' = request_log]_vars
    /\ [][GetZones(TRUE) => call_stack' # <<>>]_vars
    /\ [][(RequestSucceeds /\ dns_ret'.requested) => zones_cache' = dns_ret'.val]_vars
    /\ [][(RequestFails \/ ApiError) => zones_cache' = zones_cache]_vars

(* ======================================================================= *)
(* Two callers, every set writing a value of its own                       *)
(* ======================================================================= *)
\* the values the sets of a run write, in the order the sets start
Versions == <<"v1", "v2", "v3", "v4", "v5">>
\* the keys the two callers work on
ConcRequests == {<<"a.com", "A", NoNs>>, <<"b.com", "A", NoNs>>}
\* the ttls they ask for
ConcTtls == {NoTtl, TtlMin}

InitConc ==
    /\ now = 0
    /\ max_entries \in 1..MaxCap
    /\ cache_backend \in Backends
    /\ redis_client = FALSE
    /\ init_pc = "created"
    /\ memory_cache = <<>>
    /\ redis = {}
    /\ cache_stats = [hits |-> 0, misses |-> 0, sets |-> 0, deletes |-> 0, evictions |-> 0]
    /\ prefetch_tasks = [k \in Keys |-> 0]
    /\ pc = [p \in Procs |-> "idle"]
    /\ frame = [p \in Procs |-> NoFrame]
    /\ ret = [p \in Procs |-> NoRet]
    /\ quiet = [p \in Procs |-> FALSE]
    /\ redis_server \in IF cache_backend = "memory" THEN {"reachable"}
                       ELSE {"reachable", "unreachable"}
    /\ callers = Procs
    /\ ops = 0
    /\ history = History(TRUE)
    /\ twin = NoTwin
    /\ InitDNSManager

NextConc ==
    \/ Tick
    \/ InitializeBackend
    \/ PingReturns
    \/ PeriodicCleanup
    \/ \E k \in Keys : PrefetchRecord(k)
    \/ \E p \in Procs, r \in ConcRequests :
          \/ \E ttl \in ConcTtls :
                /\ history.written < Len(Versions)
                /\ Set(p, r[1], r[2], Versions[history.written + 1], ttl, r[3])
          \/ Get(p, r[1], r[2], r[3])
    \/ \E p \in Procs :
          \/ SetexReturns(p)
          \/ GetReturns(p)

SpecConc == InitConc /\ [][NextConc]_vars

\* C19 (no older data): a get that starts after a set of the same key has
\* completed never returns a value written by a set that started before
\* that set did, whatever other gets, prefetches, evictions, expiries
\* and failed Redis calls are interleaved.
NoOlderData ==
    [][\A p \in Procs :
          /\ \A r \in ConcRequests :
                (Get(p, r[1], r[2], r[3]) /\ pc'[p] = "idle")
                => ret'[p].op = "get" /\ ret'[p].val \notin history.old[KeyOf(r)]
          /\ GetReturns(p)
                => ret'[p].op = "get" /\ ret'[p].val \notin history.snap[p]]_vars

\* a get that started after two sets of its key had completed, one after the
\* other, has returned the value of the later one
NoOlderDataWitness ==
    \E p \in Procs :
        /\ ret[p].op = "get"
        /\ history.old[ret[p].key] # {}
        /\ ret[p].val \in history.done[ret[p].key] \ history.old[ret[p].key]

(* ======================================================================= *)
(* A full memory cache                                                     *)
(* ======================================================================= *)
\* the records asked for, the first max_entries of them cached already
LruRequests ==
    << <<"a.com", "A", NoNs>>, <<"a.com", "mx", NoNs>>, <<"b.com", "A", NoNs>>,
       <<"b.com", "A", "8.8.8.8">>, <<"a.com", "A", "8.8.8.8">>, <<"a.com", "mx", "8.8.8.8">> >>
LruKey(i) == GenerateCacheKey(LruRequests[i][1], LruRequests[i][2], LruRequests[i][3])
LruKeys == {LruKey(i) : i \in 1..Len(LruRequests)}

\* the engine on the memory backend with max_entries = MaxCap + 1, after
\* max_entries records were set at time 0; ops counts the operations from here
InitLru ==
    /\ now = 0
    /\ max_entries = MaxCap + 1
    /\ cache_backend = "memory"
    /\ redis_client = FALSE
    /\ init_pc = "done"
    /\ memory_cache = [i \in 1..max_entries |-> CacheEntry(LruKey(i), "1.2.3.4", 0, ClampTtl(TtlMin))]
    /\ redis = {}
    /\ cache_stats = [hits |-> 0, misses |-> 0, sets |-> max_entries, deletes |-> 0,
                      evictions |-> 0]
    /\ prefetch_tasks = [k \in LruKeys |-> 0]
    /\ pc = [p \in Procs |-> "idle"]
    /\ frame = [p \in Procs |-> NoFrame]
    /\ ret = [p \in Procs |-> IF p = "p1"
                              THEN Result("set", LruKey(max_entries), "1.2.3.4", "True", 0, "memory")
                              ELSE NoRet]
    /\ quiet = QuietStart("p1")
    /\ redis_server = "reachable"
    /\ callers = {"p1"}
    /\ ops = 0
    /\ history = History(FALSE)
    /\ twin = NoTwin
    /\ InitDNSManager

NextLru ==
    \/ Tick
    \/ PeriodicCleanup
    \/ \E k \in LruKeys : PrefetchRecord(k)
    \/ \E p \in Procs, i \in 1..Len(LruRequests) :
          \/ Set(p, LruRequests[i][1], LruRequests[i][2], "1.2.3.4", TtlMin, LruRequests[i][3])
          \/ Get(p, LruRequests[i][1], LruRequests[i][2], LruRequests[i][3])

SpecLru == InitLru /\ [][NextLru]_vars

\* the time an entry was last used: last_accessed, created_at when it was
\* never accessed
LastUsed(e) == IF e.access_count = 0 THEN e.created_at[2] ELSE e.last_accessed[2]

\* C20 (LRU order): an eviction removes the entries used longest ago: every
\* entry removed was last used before every entry that remains, or at the
\* same time and inserted in the cache before it; and it removes something.
LruOrder ==
    [][\A p \in Procs, i \in 1..Len(LruRequests) :
          LET r == LruRequests[i]
              before == Store(memory_cache,
                              CacheEntry(LruKey(i), "1.2.3.4", now, ClampTtl(TtlMin)))
          IN  (Set(p, r[1], r[2], "1.2.3.4", TtlMin, r[3]) /\ Len(before) > max_entries)
              => /\ Len(memory_cache') < Len(before)
                 /\ \A a, b \in 1..Len(before) :
                       (~Has(memory_cache', before[a].key) /\ Has(memory_cache', before[b].key))
                       => \/ LastUsed(before[a]) < LastUsed(before[b])
                          \/ LastUsed(before[a]) = LastUsed(before[b]) /\ a < b]_vars

\* an eviction has removed entries, and an entry that was in the cache from
\* the start has stayed because it was read since
LruOrderWitness ==
    /\ cache_stats.evictions > 0
    /\ \E i \in 1..Len(memory_cache) :
          /\ memory_cache[i].created_at[2] = 0
          /\ memory_cache[i].access_count > 0
          /\ memory_cache[i].last_accessed[2] > 0
    /\ \E i \in 1..Len(memory_cache) : memory_cache[i].access_count = 0

\* C21 (a set keeps its own entry): for every max_entries >= 1 the eviction a
\* set triggers does not remove the entry the set has just written: the key
\* is in the memory cache after the write and when the set returns True.
SetKeepsOwnEntry ==
    [][\A p \in Procs :
          /\ \A r \in Requests, a \in Answers :
                Set(p, r[1], r[2], a[1], a[2], r[3]) => Has(memory_cache', KeyOf(r))
          /\ (SetexReturns(p) /\ ret'[p].val = "True")
                => Has(memory_cache', frame[p].key)]_vars

\* C22 (capacity bound): in every state in which no set is in progress the
\* memory cache holds at most max_entries entries, whatever the backend and
\* whatever gets, sets, deletes, invalidations and cleanup runs came before.
CapacityBound ==
    (\A p \in Procs : pc[p] # "setex") => Len(memory_cache) <= max_entries

\* the memory cache is full again after an eviction, and no call is running
CapacityBoundWitness ==
    /\ \A p \in Procs : pc[p] = "idle"
    /\ cache_stats.evictions > 0
    /\ Len(memory_cache) = max_entries

\* caller q has finished, with a successful setex, a set of the key that p is
\* writing, and that set started after p's set did: the two sets ran
\* concurrently
Overlapped(p, q) ==
    /\ pc[p] = "setex" /\ pc[q] = "idle"
    /\ ret[q].op = "set" /\ ret[q].key = frame[p].key /\ ret[q].path = "redis"
    /\ ret[q].arg \notin history.pre[p]

\* C23 (tier agreement under concurrent writes): when two sets of one key with
\* different values have run concurrently, each suspended at its setex, and
\* both setex calls succeeded, then at the return of the second one the
\* memory cache and Redis hold the same value for the key.
TierAgreement ==
    [][\A p, q \in Procs :
          (Overlapped(p, q) /\ SetexReturns(p) /\ ret'[p].path = "redis")
          => /\ Has(memory_cache', frame[p].key)
             /\ \E r \in redis' : /\ r.key = frame[p].key
                                  /\ r.data.value = Lookup(memory_cache', frame[p].key).value]_vars

\* C24 (stale-while-revalidate refresh): a prefetch task that runs without a
\* failure replaces the stale entry of its key by a fresh one (created now,
\* expiring later than the old one), so that a later get is a hit on the
\* refreshed entry; _prefetch_record has no call that can fail.
PrefetchRefreshes ==
    [][\A k \in Keys :
          (/\ PrefetchRecord(k)
           /\ Has(memory_cache, k)
           /\ IsStale(Lookup(memory_cache, k), now, PrefetchThreshold)
           /\ ~IsExpired(Lookup(memory_cache, k), now))
          => /\ Has(memory_cache', k)
             /\ Lookup(memory_cache', k).created_at = Datetime(now)
             /\ Lookup(memory_cache', k).expires_at[2] > Lookup(memory_cache, k).expires_at[2]]_vars

\* C25 (prefetch trigger): a prefetch task is created only by a get that hits
\* in the memory cache an entry that is within prefetch_threshold of its
\* expiry and not expired; that get creates one task and returns the cached
\* value at once.  No other get and no other operation creates one.
PrefetchTrigger ==
    [][\A k \in Keys :
          prefetch_tasks'[k] > prefetch_tasks[k]
          => \E p \in Procs, r \in Requests :
                /\ KeyOf(r) = k
                /\ Get(p, r[1], r[2], r[3])
                /\ Has(memory_cache, k)
                /\ Lookup(memory_cache, k).expires_at[2] - now <= PrefetchThreshold
                /\ now <= Lookup(memory_cache, k).expires_at[2]
                /\ prefetch_tasks'[k] = prefetch_tasks[k] + 1
                /\ pc'[p] = "idle"
                /\ ret'[p].val = Lookup(memory_cache, k).value]_vars

\* a get has returned the value of a stale entry, and the one prefetch task
\* it created has not run yet
PrefetchTriggerWitness ==
    \E p \in Procs :
        /\ ret[p].op = "get" /\ ret[p].path = "memory" /\ pc[p] = "idle"
        /\ Has(memory_cache, ret[p].key)
        /\ ret[p].val = Lookup(memory_cache, ret[p].key).value
        /\ prefetch_tasks[ret[p].key] = 1
        /\ Lookup(memory_cache, ret[p].key).access_count = 1
        /\ Lookup(memory_cache, ret[p].key).expires_at[2] - now <= PrefetchThreshold
        /\ now > 0

\* what a cleanup run has to do to the memory cache: every entry whose
\* expires_at has passed is gone, every other entry is as it was
Swept ==
    /\ \A i \in 1..Len(memory_cache) :
          IF now > memory_cache[i].expires_at[2]
          THEN ~Has(memory_cache', memory_cache[i].key)
          ELSE /\ Has(memory_cache', memory_cache[i].key)
               /\ Lookup(memory_cache', memory_cache[i].key) = memory_cache[i]
    /\ Len(memory_cache') <= Len(memory_cache)

\* C26 (cleanup sweep): once the engine is initialised a run of
\* _periodic_cleanup is always possible, whatever earlier runs met; the run
\* removes from the memory cache every entry whose expires_at has passed and
\* leaves every other entry as it was, changes no counter and nothing in
\* Redis.
CleanupSweep ==
    /\ [](Initialized => ENABLED (PeriodicCleanup /\ Swept))
    /\ [][PeriodicCleanup => Swept /\ cache_stats' = cache_stats /\ redis' = redis]_vars

\* two sets and nothing else were called, nothing was evicted, and the entry
\* of the second set is gone while another entry, not expired, is still there:
\* a cleanup run has removed the one and kept the other
CleanupSweepWitness ==
    /\ ops = 2 /\ cache_stats.sets = 2 /\ cache_stats.evictions = 0
    /\ ret["p1"].op = "set"
    /\ Len(memory_cache) = 1
    /\ memory_cache[1].key # ret["p1"].key
    /\ now <= memory_cache[1].expires_at[2]

(* ======================================================================= *)
(* Two engines on the memory backend, given the same calls at the same     *)
(* times; _periodic_cleanup runs in the first one only                     *)
(* ======================================================================= *)
\* set() on the memory backend: the memory cache afterwards
SetLocal(cache, k, value, ttl, t, m) ==
    EvictIfFull(Store(cache, CacheEntry(k, value, t, ClampTtl(ttl))), m).cache

\* get() on the memory backend: the memory cache afterwards and the value
\* returned
GetLocal(cache, k, t) ==
    IF Has(cache, k) /\ IsExpired(Lookup(cache, k), t)
    THEN [cache |-> Remove(cache, {k}), val |-> None]
    ELSE IF Has(cache, k)
    THEN [cache |-> Store(cache, Touched(Lookup(cache, k), t)), val |-> Lookup(cache, k).value]
    ELSE [cache |-> cache, val |-> None]

\* one run of _periodic_cleanup
CleanupLocal(cache, t) == SelectSeq(cache, LAMBDA e : ~IsExpired(e, t))

\* the ttls the calls ask for
TwinTtls == {NoTtl, TtlMin}

beside_twin == <<now, max_entries, cache_backend, redis_client, init_pc, memory_cache,
                 redis, cache_stats, prefetch_tasks, pc, frame, ret, quiet, redis_server,
                 callers, ops, history, dns_vars>>

TwinCall == twin.calls < MaxTwinCalls

TwinSet(k, ttl) ==
    /\ TwinCall
    /\ twin' = [twin EXCEPT
                  !.swept = SetLocal(twin.swept, k, "1.2.3.4", ttl, twin.clock, max_entries),
                  !.unswept = SetLocal(twin.unswept, k, "1.2.3.4", ttl, twin.clock, max_entries),
                  !.calls = @ + 1]
    /\ UNCHANGED beside_twin

TwinGet(k) ==
    /\ TwinCall
    /\ twin' = [twin EXCEPT
                  !.swept = GetLocal(twin.swept, k, twin.clock).cache,
                  !.unswept = GetLocal(twin.unswept, k, twin.clock).cache,
                  !.found = <<GetLocal(twin.swept, k, twin.clock).val,
                              GetLocal(twin.unswept, k, twin.clock).val>>,
                  !.calls = @ + 1]
    /\ UNCHANGED beside_twin

TwinDelete(k) ==
    /\ TwinCall
    /\ twin' = [twin EXCEPT !.swept = Remove(twin.swept, {k}),
                            !.unswept = Remove(twin.unswept, {k}),
                            !.calls = @ + 1]
    /\ UNCHANGED beside_twin

TwinTick ==
    /\ twin.clock + Step <= MaxTicks * Step
    /\ twin.swept # <<>> \/ twin.unswept # <<>>
    /\ twin' = [twin EXCEPT !.clock = @ + Step]
    /\ UNCHANGED beside_twin

\* the cleanup task of the first engine runs
TwinCleanup ==
    /\ twin' = [twin EXCEPT !.swept = CleanupLocal(twin.swept, twin.clock)]
    /\ UNCHANGED beside_twin

InitTwin ==
    /\ Init
    /\ cache_backend = "memory"

NextTwin ==
    \/ TwinTick
    \/ TwinCleanup
    \/ \E k \in Keys :
          \/ \E ttl \in TwinTtls : TwinSet(k, ttl)
          \/ TwinGet(k)
          \/ TwinDelete(k)

SpecTwin == InitTwin /\ [][NextTwin]_vars

\* C27 (cleanup independence): for every sequence of calls the gets return
\* the same values whether or not cleanup runs are interleaved: the last get
\* of the two engines returned the same.
CleanupIndependence == twin.found[1] = twin.found[2]

(* ---------------- hit and miss counters --------------------------------- *)
\* caller p's get ends in this step: at once, or when the Redis get returns
GetEnds(p) ==
    \/ \E r \in Requests : Get(p, r[1], r[2], r[3]) /\ pc'[p] = "idle"
    \/ GetReturns(p)

\* the step counts one hit and no miss
OneHit ==
    /\ cache_stats'.hits = cache_stats.hits + 1
    /\ cache_stats'.misses = cache_stats.misses

\* the step counts one miss and no hit
OneMiss ==
    /\ cache_stats'.misses = cache_stats.misses + 1
    /\ cache_stats'.hits = cache_stats.hits

\* C28 (hit/miss accounting): both counters start at zero; a step in which a
\* get ends counts exactly one hit when the get returns a value and exactly
\* one miss when it returns None; every other step leaves both counters as
\* they were, so hits + misses is the number of gets that have ended.
HitMissAccounting ==
    /\ [](ops = 0 => cache_stats.hits = 0 /\ cache_stats.misses = 0)
    /\ [][
          /\ \A p \in Procs :
                GetEnds(p) =>
                    /\ ret'[p].op = "get"
                    /\ ~ret'[p].raised
                    /\ IF ret'[p].val # None THEN OneHit ELSE OneMiss
          /\ (~ \E p \in Procs : GetEnds(p)) =>
                /\ cache_stats'.hits = cache_stats.hits
                /\ cache_stats'.misses = cache_stats.misses
       ]_vars

\* a get has missed, and a later get has just returned a value
HitMissAccountingWitness ==
    /\ cache_stats.hits = 1
    /\ cache_stats.misses = 1
    /\ ret["p1"].op = "get"
    /\ ret["p1"].val # None

(* ======================================================================= *)
(* optimize_ttl                                                            *)
(* ======================================================================= *)
\* config['optimization']['auto_ttl_adjustment']
AutoTtlAdjustment == TRUE

\* int(ttl * 1.2) and int(ttl / 1.2): the floating-point results truncate to
\* these quotients for every ttl from 1 to ttl_max
Lengthened(ttl) == (ttl * AdjustNum) \div AdjustDen
Shortened(ttl) == (ttl * AdjustDen) \div AdjustNum

\* optimize_ttl(domain, record_type, access_pattern) with cache_key k at time
\* t: the ttl returned (n) and the return statement reached (path).
\* access_per_hour = access_count / max(1, age / 3600) is compared after
\* multiplying both sides by 3600 * max(1, age / 3600) = max(3600, age).
OptimizeTtlOf(cache, k, t) ==
    IF ~AutoTtlAdjustment
    THEN [n |-> TtlDefault, path |-> "off"]
    ELSE IF ~Has(cache, k)
    THEN [n |-> TtlDefault, path |-> "default"]
    ELSE LET entry == Lookup(cache, k)
             age == t - entry.created_at[2]
             hours == Max(SecondsPerHour, age)
             high == entry.access_count * SecondsPerHour > HighRate * hours
             low == entry.access_count * SecondsPerHour < LowRate * hours
             optimal_ttl == IF high THEN Lengthened(entry.ttl)
                            ELSE IF low THEN Shortened(entry.ttl)
                            ELSE entry.ttl
         IN  IF entry.access_count < MinAccessForAdjustment
             THEN [n |-> TtlDefault, path |-> "default"]
             ELSE IF ~IsDatetime(entry.created_at)
             \* datetime.now() - str raises; the handler returns the default
             THEN [n |-> TtlDefault, path |-> "TypeError"]
             ELSE [n |-> Max(TtlMin, Min(optimal_ttl, TtlMax)), path |-> "adjusted"]

\* caller p calls optimize_ttl(domain, record_type, access_pattern); it has
\* no await and changes nothing of the cache
OptimizeTtl(p, domain, record_type) ==
    LET cache_key == GenerateCacheKey(domain, record_type, NoNs)
        optimal == OptimizeTtlOf(memory_cache, cache_key, now)
    IN  /\ Idle(p)
        /\ ops' = ops + 1
        /\ quiet' = QuietStep(p)
        /\ Returns(p, Result("optimize_ttl", cache_key, None, None, optimal.n, optimal.path))
        /\ UNCHANGED <<dns_vars, history, twin>>
        /\ UNCHANGED <<now, max_entries, cache_backend, redis_client, init_pc,
                       memory_cache, redis, cache_stats, prefetch_tasks,
                       redis_server, callers>>

\* the entries optimize_ttl is asked about: their ttl, the accesses they have
\* had and their age in seconds
OptimizeTtls == {TtlMin, TtlDefault, TtlMax}
AccessCounts == {0, MinAccessForAdjustment - 1, MinAccessForAdjustment,
                 MinAccessForAdjustment + 1, 4 * MinAccessForAdjustment}
Ages == {0, SecondsPerHour, 2 * SecondsPerHour, 20 * SecondsPerHour}
OptimizeRequests == {<<"a.com", "A", NoNs>>, <<"b.com", "A", NoNs>>}

\* a memory-backend engine holding one entry of a.com that was set with
\* ttl seconds to live, age seconds ago, and read count times since
InitOptimize ==
    /\ now = 0
    /\ max_entries = MaxCap
    /\ cache_backend = "memory"
    /\ redis_client = FALSE
    /\ init_pc = "done"
    /\ \E ttl \in OptimizeTtls, count \in AccessCounts, age \in Ages :
          memory_cache =
              <<[CacheEntry(GenerateCacheKey("a.com", "A", NoNs), "1.2.3.4",
                            0 - age, ClampTtl(ttl))
                   EXCEPT !.access_count = count]>>
    /\ redis = {}
    /\ cache_stats = [hits |-> 0, misses |-> 0, sets |-> 1, deletes |-> 0,
                      evictions |-> 0]
    /\ prefetch_tasks = [k \in Keys |-> 0]
    /\ pc = [p \in Procs |-> "idle"]
    /\ frame = [p \in Procs |-> NoFrame]
    /\ ret = [p \in Procs |-> NoRet]
    /\ quiet = [p \in Procs |-> FALSE]
    /\ redis_server = "reachable"
    /\ callers = {"p1"}
    /\ ops = 0
    /\ history = History(FALSE)
    /\ twin = NoTwin
    /\ InitDNSManager

NextOptimize ==
    \/ Tick
    \/ \E p \in Procs, r \in OptimizeRequests :
          \/ Get(p, r[1], r[2], r[3])
          \/ OptimizeTtl(p, r[1], r[2])

SpecOptimize == InitOptimize /\ [][NextOptimize]_vars

\* C29 (thin sample): optimize_ttl for a cached entry that has been accessed
\* fewer than min_access_for_adjustment times returns that entry's own ttl,
\* whatever the entry's age.
ThinSampleKeepsTtl ==
    [][\A p \in Procs, r \in OptimizeRequests :
          LET k == KeyOf(r)
          IN  (/\ OptimizeTtl(p, r[1], r[2])
               /\ Has(memory_cache, k)
               /\ Lookup(memory_cache, k).access_count < MinAccessForAdjustment)
              => ret'[p].n = Lookup(memory_cache, k).ttl
      ]_vars

(* ======================================================================= *)
(* _make_request: the attempts of one call                                 *)
(* ======================================================================= *)
\* the HTTP attempts a call standing at this stack still makes when every
\* one of them fails with a RequestException: the most it can make without
\* another 429
RECURSIVE AttemptsLeft(_)
AttemptsLeft(stack) ==
    IF stack = <<>> THEN 0 ELSE 1 + AttemptsLeft(OnRequestException(stack))

\* the step is an HTTP attempt of the call in flight
Attempt ==
    /\ call_stack # <<>>
    /\ request_log'.attempts = request_log.attempts + 1

====
